---- MODULE Spec2Model ----
(***************************************************************************)
(* LayerUI (assets/core/gui/layer/LayerUI.ts): one UI layer that loads     *)
(* prefab views asynchronously, keeps them in ui_nodes (by uuid) and       *)
(* ui_cache (by prefab path), and answers queries over its valid children. *)
(*                                                                         *)
(* A ViewParams object is a record id (index into recs).  A Node is named  *)
(* by the id of the load request whose completion instantiated it; its     *)
(* DelegateComponent.viewParams is the record that issued that load        *)
(* (loadRec).  0 stands for null / undefined.                              *)
(***************************************************************************)
EXTENDS Integers, Sequences, FiniteSets, TLC

\* Number of asset loads (hence of nodes and of ViewParams records) a run may issue.
MaxLoads == 3

\* The layer's name (constructor argument), as a sequence of characters.
LayerName == <<"L">>

\* Prefab paths callers pass in: two that differ only in "/" versus "_", one unrelated.
Paths == { <<"a", "/", "b">>, <<"a", "_", "b">>, <<"c">> }

\* The paths one run works with: a pair that differs only in "/" versus "_", or an
\* unrelated pair.
PathSets == { { <<"a", "/", "b">>, <<"a", "_", "b">> }, { <<"a", "/", "b">>, <<"c">> } }

\* Regular expressions for find(), each given by the set of paths it matches.
Patterns == SUBSET Paths

VARIABLES
    recs,       \* every ViewParams ever created: [uuid, prefabPath, node, valid]
    ui_nodes,   \* Map<uuid, ViewParams>: record ids in insertion order
    ui_cache,   \* Map<prefabPath, ViewParams>: path -> record id, 0 = no entry
    children,   \* this.children: node ids in child order
    loadRec,    \* load request / node id -> the record captured by its callback
    pending,    \* load requests handed to oops.res.load and not yet completed
    destroys,   \* node id -> number of remove(true) notifications its binding got
    inUse,      \* the prefab paths the callers of this run pass in
    scen        \* the run of consecutive calls on one path that led to this state

vars == <<recs, ui_nodes, ui_cache, children, loadRec, pending, destroys, inUse, scen>>

\* The mutable part of the layer, threaded through the helpers below.
LayerState == [recs |-> recs, ui_nodes |-> ui_nodes, ui_cache |-> ui_cache,
               children |-> children, loadRec |-> loadRec, pending |-> pending,
               destroys |-> destroys]

-----------------------------------------------------------------------------
(* Sequence helpers *)

RECURSIVE SeqFilterOut(_, _)
SeqFilterOut(s, x) ==
    IF s = <<>> THEN <<>>
    ELSE IF Head(s) = x THEN SeqFilterOut(Tail(s), x)
         ELSE <<Head(s)>> \o SeqFilterOut(Tail(s), x)

SeqRange(s) == { s[i] : i \in 1..Len(s) }

-----------------------------------------------------------------------------
(* getUuid: `${this.name}_${prefabPath}` with every "/" replaced by "_" *)

RECURSIVE ReplaceSlash(_)
ReplaceSlash(s) ==
    IF s = <<>> THEN <<>>
    ELSE <<(IF Head(s) = "/" THEN "_" ELSE Head(s))>> \o ReplaceSlash(Tail(s))

getUuid(prefabPath) == ReplaceSlash(LayerName \o <<"_">> \o prefabPath)

-----------------------------------------------------------------------------
(* Map operations on ui_nodes, keyed by the record's uuid *)

\* Map.get(uuid): the record stored under uuid, or 0
MapGet(st, uuid) ==
    LET hits == { r \in SeqRange(st.ui_nodes) : st.recs[r].uuid = uuid }
    IN IF hits = {} THEN 0 ELSE CHOOSE r \in hits : TRUE

\* Map.delete(uuid)
MapDelete(st, uuid) ==
    LET r == MapGet(st, uuid)
    IN IF r = 0 THEN st ELSE [st EXCEPT !.ui_nodes = SeqFilterOut(@, r)]

-----------------------------------------------------------------------------
(* DelegateComponent of a node: remove(isDestroy) detaches the node from   *)
(* the layer, and destroys it when isDestroy; add() has no effect on the   *)
(* layer's bookkeeping.                                                    *)

BindingRemove(st, n, isDestroy) ==
    [st EXCEPT !.children = SeqFilterOut(@, n),
               !.destroys = IF isDestroy THEN [@ EXCEPT ![n] = @ + 1] ELSE @]

BindingAdd(st, n) == st

\* isValid(comp): the node has not been destroyed
IsAlive(st, n) == st.destroys[n] = 0

-----------------------------------------------------------------------------
(* __nodes(): bindings of the children whose record is valid and alive *)

RECURSIVE NodesOf(_, _)
NodesOf(st, ch) ==
    IF ch = <<>> THEN <<>>
    ELSE LET n == Head(ch)
         IN (IF st.loadRec[n] # 0 /\ st.recs[st.loadRec[n]].valid /\ IsAlive(st, n)
             THEN <<n>> ELSE <<>>) \o NodesOf(st, Tail(ch))

__nodes(st) == NodesOf(st, st.children)

-----------------------------------------------------------------------------
(* createNode(viewParams) *)

\* createNode() that puts the node in front of the layer's other children.
createNode_Prepends(st, r) ==
    LET n  == st.recs[r].node
        s1 == [st EXCEPT !.recs[r].valid = TRUE]
        s2 == BindingAdd(s1, n)
    IN [s2 EXCEPT !.children = IF n \in SeqRange(@) THEN @ ELSE <<n>> \o @]

createNode(st, r) ==
    LET n  == st.recs[r].node
        s1 == [st EXCEPT !.recs[r].valid = TRUE]
        s2 == BindingAdd(s1, n)
    IN [s2 EXCEPT !.children = IF n \in SeqRange(@) THEN @ ELSE Append(@, n)]

\* load() without the re-attach branch: every call asks the asset provider.
load_AlwaysRequest(st, r) ==
    [st EXCEPT !.loadRec = Append(@, r),
               !.pending = @ \cup {Len(st.loadRec) + 1},
               !.destroys = Append(@, 0)]

(* load(viewParams, bundle): re-attach when the record stored under the    *)
(* uuid already has a node, else hand a request to the asset provider.     *)
load(st, r) ==
    LET vp == MapGet(st, st.recs[r].uuid)
    IN IF vp # 0 /\ st.recs[vp].node # 0
       THEN createNode(st, vp)
       ELSE [st EXCEPT !.loadRec = Append(@, r),
                       !.pending = @ \cup {Len(st.loadRec) + 1},
                       !.destroys = Append(@, 0)]

\* add() that rejects a duplicate only once the record has a node.
add_RejectsAttachedOnly(st, prefabPath) ==
    LET uuid == getUuid(prefabPath)
        vp0  == MapGet(st, uuid)
    IN IF vp0 # 0 /\ st.recs[vp0].valid /\ st.recs[vp0].node # 0
       THEN [st |-> st, ret |-> <<>>]
       ELSE LET fresh == Len(st.recs) + 1
                s1 == IF vp0 = 0
                      THEN [st EXCEPT
                              !.recs = Append(@, [uuid |-> uuid, prefabPath |-> prefabPath,
                                                  node |-> 0, valid |-> FALSE]),
                              !.ui_nodes = Append(@, fresh)]
                      ELSE st
                vp == IF vp0 = 0 THEN fresh ELSE vp0
                s2 == [s1 EXCEPT !.recs[vp].valid = TRUE]
            IN [st |-> load(s2, vp), ret |-> uuid]

(* add(config, params, callbacks): the layer afterwards and the value      *)
(* returned ("" is the empty sequence).                                    *)
add(st, prefabPath) ==
    LET uuid == getUuid(prefabPath)
        vp0  == MapGet(st, uuid)
    IN IF vp0 # 0 /\ st.recs[vp0].valid
       THEN [st |-> st, ret |-> <<>>]
       ELSE LET fresh == Len(st.recs) + 1
                s1 == IF vp0 = 0
                      THEN [st EXCEPT
                              !.recs = Append(@, [uuid |-> uuid, prefabPath |-> prefabPath,
                                                  node |-> 0, valid |-> FALSE]),
                              !.ui_nodes = Append(@, fresh)]
                      ELSE st
                vp == IF vp0 = 0 THEN fresh ELSE vp0
                s2 == [s1 EXCEPT !.recs[vp].valid = TRUE]
            IN [st |-> load(s2, vp), ret |-> uuid]

\* The completion callback that, on err, takes the record out of ui_nodes.
loadCallback_ErrEvicts(st, l, err, nullStored) ==
    LET r == st.loadRec[l]
        s0 == [st EXCEPT !.pending = @ \ {l}]
    IN IF err
       THEN [st |-> MapDelete(s0, s0.recs[r].uuid), threw |-> TRUE]
       ELSE [st |-> createNode([s0 EXCEPT !.recs[r].node = l], r), threw |-> FALSE]

(* The completion callback of oops.res.load for request l.  With err, res  *)
(* is no prefab: instantiate either throws at once or returns null, which  *)
(* is stored in viewParams.node before addComponent throws on it.          *)
loadCallback(st, l, err, nullStored) ==
    LET r == st.loadRec[l]
        s0 == [st EXCEPT !.pending = @ \ {l}]
    IN IF err
       THEN [st |-> IF nullStored THEN [s0 EXCEPT !.recs[r].node = 0] ELSE s0,
             threw |-> TRUE]
       ELSE [st |-> createNode([s0 EXCEPT !.recs[r].node = l], r), threw |-> FALSE]

-----------------------------------------------------------------------------
(* removeCache(prefabPath) *)

removeCache(st, prefabPath) ==
    LET vp == st.ui_cache[prefabPath]
    IN IF vp = 0 THEN st
       ELSE LET s1 == BindingRemove(st, st.recs[vp].node, TRUE)
                s2 == MapDelete(s1, s1.recs[vp].uuid)
            IN [s2 EXCEPT !.ui_cache[prefabPath] = 0]

\* The loop of remove() without ui_nodes.delete in the destroying branch.
RECURSIVE removeLoop_KeepsRecord(_, _, _, _)
removeLoop_KeepsRecord(st, comps, prefabPath, isDestroy) ==
    IF comps = <<>> THEN st
    ELSE LET n  == Head(comps)
             vp == st.loadRec[n]
         IN IF st.recs[vp].prefabPath = prefabPath
            THEN LET s1 == IF isDestroy THEN st
                           ELSE [st EXCEPT !.ui_cache[prefabPath] = vp]
                     s2 == BindingRemove(s1, n, isDestroy)
                     s3 == [s2 EXCEPT !.recs[vp].valid = FALSE]
                 IN removeLoop_KeepsRecord(s3, Tail(comps), prefabPath, isDestroy)
            ELSE removeLoop_KeepsRecord(st, Tail(comps), prefabPath, isDestroy)

\* The loop of remove() that takes a record out of ui_nodes when it caches it.
RECURSIVE removeLoop_MovesToCache(_, _, _, _)
removeLoop_MovesToCache(st, comps, prefabPath, isDestroy) ==
    IF comps = <<>> THEN st
    ELSE LET n  == Head(comps)
             vp == st.loadRec[n]
         IN IF st.recs[vp].prefabPath = prefabPath
            THEN LET s0 == MapDelete(st, st.recs[vp].uuid)
                     s1 == IF isDestroy THEN s0
                           ELSE [s0 EXCEPT !.ui_cache[prefabPath] = vp]
                     s2 == BindingRemove(s1, n, isDestroy)
                     s3 == [s2 EXCEPT !.recs[vp].valid = FALSE]
                 IN removeLoop_MovesToCache(s3, Tail(comps), prefabPath, isDestroy)
            ELSE removeLoop_MovesToCache(st, Tail(comps), prefabPath, isDestroy)

(* The loop of remove() over the bindings __nodes() returned *)
RECURSIVE removeLoop(_, _, _, _)
removeLoop(st, comps, prefabPath, isDestroy) ==
    IF comps = <<>> THEN st
    ELSE LET n  == Head(comps)
             vp == st.loadRec[n]
         IN IF st.recs[vp].prefabPath = prefabPath
            THEN LET s1 == IF isDestroy
                           THEN MapDelete(st, st.recs[vp].uuid)
                           ELSE [st EXCEPT !.ui_cache[prefabPath] = vp]
                     s2 == BindingRemove(s1, n, isDestroy)
                     s3 == [s2 EXCEPT !.recs[vp].valid = FALSE]
                 IN removeLoop(s3, Tail(comps), prefabPath, isDestroy)
            ELSE removeLoop(st, Tail(comps), prefabPath, isDestroy)

\* remove() that, when destroying, also deletes the record ui_nodes holds under
\* the path's uuid, attached or not.
remove_DeletesByUuid(st, prefabPath, isDestroy) ==
    LET s1 == IF isDestroy THEN removeCache(st, prefabPath) ELSE st
        s2 == removeLoop(s1, __nodes(s1), prefabPath, isDestroy)
    IN IF isDestroy THEN MapDelete(s2, getUuid(prefabPath)) ELSE s2

(* remove(prefabPath, isDestroy) *)
remove(st, prefabPath, isDestroy) ==
    LET s1 == IF isDestroy THEN removeCache(st, prefabPath) ELSE st
    IN removeLoop(s1, __nodes(s1), prefabPath, isDestroy)

(* removeByUuid(uuid, isDestroy): throws a TypeError when the record has   *)
(* no node yet (childNode.getComponent on undefined).                      *)
removeByUuid(st, uuid, isDestroy) ==
    LET vp == MapGet(st, uuid)
    IN IF vp = 0 THEN [st |-> st, threw |-> FALSE]
       ELSE LET s1 == IF isDestroy THEN MapDelete(st, uuid) ELSE st
                n  == s1.recs[vp].node
            IN IF n = 0 THEN [st |-> s1, threw |-> TRUE]
               ELSE [st |-> BindingRemove(s1, n, isDestroy), threw |-> FALSE]

(* ui_nodes.forEach of clear(), over the entries in insertion order; an    *)
(* exception in the callback ends the iteration and the call.              *)
RECURSIVE clearNodesLoop(_, _, _)
clearNodesLoop(st, entries, isDestroy) ==
    IF entries = <<>> THEN [st |-> st, threw |-> FALSE]
    ELSE LET value == Head(entries)
             r1 == removeByUuid(st, st.recs[value].uuid, isDestroy)
         IN IF r1.threw THEN r1
            ELSE clearNodesLoop([r1.st EXCEPT !.recs[value].valid = FALSE],
                                Tail(entries), isDestroy)

(* ui_cache.forEach of clear(true) *)
RECURSIVE clearCacheLoop(_, _)
clearCacheLoop(st, keys) ==
    IF keys = {} THEN st
    ELSE LET prefabPath == CHOOSE k \in keys : TRUE
         IN clearCacheLoop(removeCache(st, prefabPath), keys \ {prefabPath})

(* clear(isDestroy) *)
clear(st, isDestroy) ==
    LET r1 == clearNodesLoop(st, st.ui_nodes, isDestroy)
    IN IF r1.threw THEN r1
       ELSE LET s2 == [r1.st EXCEPT !.ui_nodes = <<>>]
            IN [st |-> IF isDestroy
                       THEN clearCacheLoop(s2, { k \in Paths : s2.ui_cache[k] # 0 })
                       ELSE s2,
                threw |-> FALSE]

-----------------------------------------------------------------------------
(* Queries *)

RECURSIVE SelectNodes(_, _, _)
SelectNodes(st, comps, paths) ==
    IF comps = <<>> THEN <<>>
    ELSE (IF st.recs[st.loadRec[Head(comps)]].prefabPath \in paths
          THEN <<Head(comps)>> ELSE <<>>) \o SelectNodes(st, Tail(comps), paths)

\* get(prefabPath): the nodes of the valid children with that path, in child order
get(st, prefabPath) == SelectNodes(st, __nodes(st), {prefabPath})

\* find(prefabPathReg), the expression given by the set of paths it matches
find(st, pattern) == SelectNodes(st, __nodes(st), pattern)

\* has() that also counts the records held in ui_cache.
has_CountsCache(st, prefabPathOrUUID) ==
    \/ \E n \in SeqRange(__nodes(st)) :
          \/ st.recs[st.loadRec[n]].uuid = prefabPathOrUUID
          \/ st.recs[st.loadRec[n]].prefabPath = prefabPathOrUUID
    \/ \E k \in Paths :
          /\ st.ui_cache[k] # 0
          /\ \/ st.recs[st.ui_cache[k]].uuid = prefabPathOrUUID
             \/ st.recs[st.ui_cache[k]].prefabPath = prefabPathOrUUID

\* has(prefabPathOrUUID)
has(st, prefabPathOrUUID) ==
    \E n \in SeqRange(__nodes(st)) :
        \/ st.recs[st.loadRec[n]].uuid = prefabPathOrUUID
        \/ st.recs[st.loadRec[n]].prefabPath = prefabPathOrUUID

\* getByUuid(uuid): the first valid child whose record has that uuid, or 0 (null)
getByUuid(st, uuid) ==
    LET comps == __nodes(st)
        idx == { i \in 1..Len(comps) : st.recs[st.loadRec[comps[i]]].uuid = uuid }
    IN IF idx = {} THEN 0 ELSE comps[CHOOSE i \in idx : \A j \in idx : i <= j]

\* size()
size(st) == Len(st.children)

-----------------------------------------------------------------------------
(* The state machine: callers invoke add / remove / clear at any time, and *)
(* the asset provider completes pending loads in any order.                *)
(*                                                                         *)
(* scen follows one path through consecutive steps:                        *)
(*   added -> loaded -> removedKeep -> keptCleared                         *)
(*                   -> removedDestroy                                     *)
(*   added -> pendingRemoved -> pendingRemovedLoaded                       *)
(*   loadFailed -> failedRemoved          (from any load ending in error)  *)
(*   added(P) -> added(Q) -> loaded(Q) -> bothLoaded   (Q another path)    *)
(* phase  how far the run has got; "cleared" after any other clear         *)
(* path   the path the run is about                                        *)
(* load   the load request the run's first add issued                      *)
(* after  for an add of the run's path made in phase added, removedKeep,   *)
(*        keptCleared, loadFailed or failedRemoved: that phase; with ret   *)
(*        the value the add returned, req the request it issued (0: none)  *)
(*        and old the run's load                                           *)
(* first  the load, still in flight, of the add of another path that came  *)
(*        right before the run's add                                       *)
(* inActive  for loadFailed: whether ui_nodes held the record when the     *)
(*        load failed                                                      *)
(* destroy, threw  for a clear: its argument, and whether it threw         *)

NoScen == [phase |-> "none", path |-> <<>>, load |-> 0, after |-> "none",
           ret |-> <<>>, req |-> 0, old |-> 0, destroy |-> FALSE, threw |-> FALSE,
           first |-> 0, inActive |-> FALSE]

Init ==
    /\ recs = <<>>
    /\ ui_nodes = <<>>
    /\ ui_cache = [p \in Paths |-> 0]
    /\ children = <<>>
    /\ loadRec = <<>>
    /\ pending = {}
    /\ destroys = <<>>
    /\ inUse \in PathSets
    /\ scen = NoScen

Install(st) ==
    /\ recs' = st.recs
    /\ ui_nodes' = st.ui_nodes
    /\ ui_cache' = st.ui_cache
    /\ children' = st.children
    /\ loadRec' = st.loadRec
    /\ pending' = st.pending
    /\ destroys' = st.destroys
    /\ UNCHANGED inUse

Add(prefabPath) ==
    LET r == add(LayerState, prefabPath)
        issued == IF Len(r.st.loadRec) > Len(loadRec) THEN Len(r.st.loadRec) ELSE 0
        follows == scen.path = prefabPath
                   /\ scen.phase \in {"added", "removedKeep", "keptCleared",
                                     "loadFailed", "failedRemoved"}
        second == scen.phase = "added" /\ scen.path # prefabPath /\ scen.load \in pending
        s1 == IF issued # 0
              THEN [NoScen EXCEPT !.phase = "added", !.path = prefabPath, !.load = issued,
                                  !.first = IF second THEN scen.load ELSE 0]
              ELSE NoScen
    IN /\ Len(r.st.loadRec) <= MaxLoads
       /\ Install(r.st)
       /\ scen' = IF follows
                  THEN [s1 EXCEPT !.path = prefabPath, !.after = scen.phase,
                                  !.ret = r.ret, !.req = issued, !.old = scen.load]
                  ELSE s1

Remove(prefabPath, isDestroy) ==
    /\ Install(remove(LayerState, prefabPath, isDestroy))
    /\ scen' = IF scen.path = prefabPath /\ scen.phase = "loaded"
                 THEN [NoScen EXCEPT !.path = prefabPath, !.load = scen.load,
                         !.phase = IF isDestroy THEN "removedDestroy" ELSE "removedKeep"]
               ELSE IF scen.path = prefabPath /\ scen.phase = "added" /\ isDestroy
                 THEN [NoScen EXCEPT !.path = prefabPath, !.load = scen.load,
                                     !.phase = "pendingRemoved"]
               ELSE IF scen.path = prefabPath /\ scen.phase = "loadFailed" /\ isDestroy
                 THEN [NoScen EXCEPT !.path = prefabPath, !.load = scen.load,
                                     !.phase = "failedRemoved"]
               ELSE NoScen

Clear(isDestroy) ==
    LET r == clear(LayerState, isDestroy)
    IN /\ Install(r.st)
       /\ scen' = IF scen.phase = "removedKeep" /\ ~isDestroy
                  THEN [NoScen EXCEPT !.path = scen.path, !.load = scen.load,
                                      !.phase = "keptCleared", !.threw = r.threw]
                  ELSE [NoScen EXCEPT !.phase = "cleared", !.destroy = isDestroy,
                                      !.threw = r.threw]

LoadOk(l) ==
    LET r == loadCallback(LayerState, l, FALSE, FALSE)
    IN /\ l \in pending
       /\ Install(r.st)
       /\ scen' = IF scen.load = l /\ scen.phase = "added"
                    THEN [NoScen EXCEPT !.path = scen.path, !.load = l, !.phase = "loaded",
                                        !.first = scen.first]
                  ELSE IF scen.first = l /\ scen.phase = "loaded"
                    THEN [NoScen EXCEPT !.path = scen.path, !.load = scen.load,
                                        !.phase = "bothLoaded", !.first = l]
                  ELSE IF scen.load = l /\ scen.phase = "pendingRemoved"
                    THEN [NoScen EXCEPT !.path = scen.path, !.load = l,
                                        !.phase = "pendingRemovedLoaded"]
                  ELSE NoScen

LoadErr(l, nullStored) ==
    LET r == loadCallback(LayerState, l, TRUE, nullStored)
    IN /\ l \in pending
       /\ Install(r.st)
       /\ scen' = [NoScen EXCEPT !.phase = "loadFailed", !.load = l,
                                 !.path = recs[loadRec[l]].prefabPath,
                                 !.inActive = loadRec[l] \in SeqRange(ui_nodes)]

Next ==
    \/ \E p \in inUse : Add(p)
    \/ \E p \in inUse, d \in BOOLEAN : Remove(p, d)
    \/ \E d \in BOOLEAN : Clear(d)
    \/ \E l \in 1..MaxLoads : LoadOk(l)
    \/ \E l \in 1..MaxLoads, ns \in BOOLEAN : LoadErr(l, ns)

Spec == Init /\ [][Next]_vars

TypeOK ==
    /\ inUse \in PathSets
    /\ Len(loadRec) <= MaxLoads
    /\ Len(recs) <= Len(loadRec)
    /\ Len(destroys) = Len(loadRec)
    /\ pending \subseteq 1..Len(loadRec)
    /\ SeqRange(ui_nodes) \subseteq 1..Len(recs)
    /\ SeqRange(children) \subseteq 1..Len(loadRec)
    /\ \A p \in Paths : ui_cache[p] \in 0..Len(recs)
    /\ \A p \in Paths : ui_cache[p] # 0 => recs[ui_cache[p]].node # 0

-----------------------------------------------------------------------------
(* Properties *)

\* The records ui_nodes holds for a path, and the records ui_cache holds
ActiveRecs(prefabPath) == { r \in SeqRange(ui_nodes) : recs[r].prefabPath = prefabPath }
CachedRecs == { ui_cache[k] : k \in Paths } \ {0}

\* Node n is a child of the layer, alive, and its record is valid
Attached(n) == n \in SeqRange(__nodes(LayerState))

\* C1: add(P) called right after an add(P) that issued a load, before that load
\* completes, returns "", issues no request, and ui_nodes holds exactly one
\* record for P.
C1_DuplicateAddRejected ==
    scen.after = "added" =>
        /\ scen.ret = <<>>
        /\ scen.req = 0
        /\ Cardinality(ActiveRecs(scen.path)) = 1

C1_Witness ==
    /\ scen.after = "added"
    /\ scen.old \in pending
    /\ scen.ret = <<>>

\* C2: in every reachable state get(P) has at most one element, for every path P.
C2_AtMostOneVisualPerPath ==
    \A p \in Paths : Len(get(LayerState, p)) <= 1

\* C3: add(P), completion of its load, remove(P, false), add(P): the last add
\* returns P's uuid, issues no request, and the node the cache holds for P - the
\* one the load created - is a valid child of the layer again.
C3_CacheRoundTrip ==
    scen.after = "removedKeep" =>
        /\ scen.ret = getUuid(scen.path)
        /\ scen.req = 0
        /\ ui_cache[scen.path] # 0
        /\ recs[ui_cache[scen.path]].node = scen.old
        /\ recs[loadRec[scen.old]].valid
        /\ Attached(scen.old)

C3_Witness ==
    /\ scen.after = "removedKeep"
    /\ scen.old \in SeqRange(children)
    /\ scen.ret # <<>>

\* C4: add(P), completion of its load, remove(P, true): neither ui_nodes nor
\* ui_cache holds a record for P, has(P) is false and get(P) is empty.
C4_DestroyIsFinal ==
    scen.phase = "removedDestroy" =>
        /\ ActiveRecs(scen.path) = {}
        /\ loadRec[scen.load] \notin SeqRange(ui_nodes) \cup CachedRecs
        /\ ui_cache[scen.path] = 0
        /\ ~has(LayerState, scen.path)
        /\ get(LayerState, scen.path) = <<>>

C4_Witness ==
    /\ scen.phase = "removedDestroy"
    /\ destroys[scen.load] > 0

\* C5 as stated: add(P), completion of its load, remove(P, false): has(P) is
\* true while get(P) is empty.
C5_HasCountsCached ==
    scen.phase = "removedKeep" =>
        /\ has(LayerState, scen.path)
        /\ get(LayerState, scen.path) = <<>>

\* C5 amended: add(P), completion of its load, remove(P, false): has(P) is
\* false and get(P) is empty; the cached view is counted by neither.
C5_HasIgnoresCached ==
    scen.phase = "removedKeep" =>
        /\ ~has(LayerState, scen.path)
        /\ get(LayerState, scen.path) = <<>>

C5_Witness ==
    /\ scen.phase = "removedKeep"
    /\ ui_cache[scen.path] = loadRec[scen.load]
    /\ scen.load \notin SeqRange(children)

\* C6: P removed with destroy=false, then clear(false), then add(P): the add
\* issues no request and the cached node is a valid child of the layer again.
C6_CacheUsableAfterClear ==
    scen.after = "keptCleared" =>
        /\ scen.req = 0
        /\ Attached(scen.old)

\* C7: a clear(destroy) called while no load is in flight leaves ui_nodes empty,
\* and leaves ui_cache empty if destroy and unchanged if not.
C7_ClearPostcondition ==
    [][ (scen'.phase \in {"cleared", "keptCleared"} /\ pending = {}) =>
            /\ ui_nodes' = <<>>
            /\ IF scen'.destroy THEN \A k \in Paths : ui_cache'[k] = 0
                                ELSE ui_cache' = ui_cache ]_vars

\* C8 as stated: no record is in ui_nodes and in ui_cache at the same time.
C8_ActiveCacheDisjoint ==
    SeqRange(ui_nodes) \cap CachedRecs = {}

\* C8 amended: a record is in ui_nodes, in ui_cache, in both or in neither.
\* remove(P, false) files the record in ui_cache without taking it out of
\* ui_nodes, so after add(P), its load and remove(P, false) the record is in both;
\* and every record ui_cache holds has a node and is filed under its own path.
C8_CachedStaysActive ==
    /\ \A k \in Paths : ui_cache[k] # 0 =>
            /\ recs[ui_cache[k]].prefabPath = k
            /\ recs[ui_cache[k]].node # 0
    /\ scen.phase = "removedKeep" =>
            /\ ui_cache[scen.path] = loadRec[scen.load]
            /\ loadRec[scen.load] \in SeqRange(ui_nodes)

C8_Witness ==
    /\ scen.phase = "removedKeep"
    /\ loadRec[scen.load] \in SeqRange(ui_nodes) \cap CachedRecs
    /\ ~recs[loadRec[scen.load]].valid

\* C9: while the load an add(P) issued is in flight, has(P) and has(uuid) are
\* false, get(P) and find of a pattern matching P are empty of P's views, and
\* getByUuid(uuid) is null.
C9_PendingInvisible ==
    \A l \in pending :
        LET p == recs[loadRec[l]].prefabPath
            u == recs[loadRec[l]].uuid
        IN /\ ~has(LayerState, p)
           /\ ~has(LayerState, u)
           /\ get(LayerState, p) = <<>>
           /\ find(LayerState, {p}) = <<>>
           /\ getByUuid(LayerState, u) = 0

\* C10: add(P), remove(P, true) before the load completes, then the load
\* completes: no view of P is attached (has(P) is false) and the record is not
\* in ui_nodes.
C10_RemoveWhileLoading ==
    scen.phase = "pendingRemovedLoaded" =>
        /\ ~has(LayerState, scen.path)
        /\ loadRec[scen.load] \notin SeqRange(ui_nodes)

\* C11: a clear(destroy) called while ui_nodes holds a record whose load is in
\* flight raises no error and leaves ui_nodes empty (so that the pending view
\* has no record left to be attached to).
C11_ClearWhileLoading ==
    [][ (/\ scen'.phase \in {"cleared", "keptCleared"}
         /\ \E l \in pending : loadRec[l] \in SeqRange(ui_nodes)) =>
            /\ ~scen'.threw
            /\ ui_nodes' = <<>> ]_vars

\* C12: when a load completes and ui_nodes no longer holds the record that
\* issued it, the new node is not attached under the layer and the record does
\* not become valid.
C12_LateCompletionDiscarded ==
    [][ \A l \in pending :
          (l \notin pending' /\ loadRec[l] \notin SeqRange(ui_nodes)) =>
              /\ l \notin SeqRange(children')
              /\ recs'[loadRec[l]].valid => recs[loadRec[l]].valid ]_vars

\* Load l has completed with an error: it is no longer in flight and its record
\* never got a node (a completion without error stores the node for good).
Failed(l) == l \in 1..Len(loadRec) /\ l \notin pending /\ recs[loadRec[l]].node = 0

\* C13 as stated: a load of P that completes with an error attaches no node and
\* leaves the record in ui_nodes with valid=true and no node; and every later
\* add(P) returns "".
C13_FailedLoadBlocksForever ==
    /\ scen.phase = "loadFailed" =>
          /\ scen.load \notin SeqRange(children)
          /\ scen.inActive =>
                /\ loadRec[scen.load] \in SeqRange(ui_nodes)
                /\ recs[loadRec[scen.load]].valid
                /\ recs[loadRec[scen.load]].node = 0
    /\ \A l \in 1..Len(loadRec) :
          Failed(l) => add(LayerState, recs[loadRec[l]].prefabPath).ret = <<>>

\* C13 amended: as above, but a later add(P) returns "" as long as ui_nodes
\* still holds the record.
C13_FailedLoadBlocksWhileActive ==
    /\ scen.phase = "loadFailed" =>
          /\ scen.load \notin SeqRange(children)
          /\ scen.inActive =>
                /\ loadRec[scen.load] \in SeqRange(ui_nodes)
                /\ recs[loadRec[scen.load]].valid
                /\ recs[loadRec[scen.load]].node = 0
    /\ \A l \in 1..Len(loadRec) :
          (Failed(l) /\ loadRec[l] \in SeqRange(ui_nodes)) =>
              add(LayerState, recs[loadRec[l]].prefabPath).ret = <<>>

C13_Witness ==
    /\ scen.after = "loadFailed"
    /\ scen.ret = <<>>
    /\ Failed(scen.old)
    /\ loadRec[scen.old] \in SeqRange(ui_nodes)

\* C14: the identifier is unique per path: the record ui_nodes holds under the
\* identifier of a path Q is a record of Q, so add(Q) is rejected or reuses a
\* record only on account of Q itself, never of another path.
C14_IdentifierUniquePerPath ==
    \A q \in Paths :
        LET vp == MapGet(LayerState, getUuid(q))
        IN vp # 0 => recs[vp].prefabPath = q

C16_DestroyReleasesFailedLoad ==
    scen.after = "failedRemoved" =>
        /\ scen.ret = getUuid(scen.path)
        /\ scen.req # 0

\* C17: whenever ui_cache stops holding a record for a path (the entry is
\* overwritten by remove(P, false) or deleted), that record's node has been
\* destroyed or is attached under the layer again.
C17_CachedVisualNeverDropped ==
    [][ \A k \in Paths :
          (ui_cache[k] # 0 /\ ui_cache'[k] # ui_cache[k]) =>
              \/ destroys'[recs[ui_cache[k]].node] > 0
              \/ recs[ui_cache[k]].node \in SeqRange(children') ]_vars

\* C18: a record whose node has been destroyed is in neither ui_nodes nor
\* ui_cache, and the node is not a child of the layer.
C18_DestroyedNeverResurrected ==
    \A n \in 1..Len(destroys) :
        destroys[n] > 0 =>
            /\ loadRec[n] \notin SeqRange(ui_nodes) \cup CachedRecs
            /\ n \notin SeqRange(children)

\* C20: no node's binding is told remove(true) more than once.
C20_DestroyedAtMostOnce ==
    \A n \in 1..Len(destroys) : destroys[n] <= 1

\* x comes before y in the sequence s
Before(s, x, y) ==
    \E i, j \in 1..Len(s) : i < j /\ s[i] = x /\ s[j] = y

\* C19: add(P), add(Q) for another path Q, then Q's load completes, then P's:
\* both nodes are valid children, and find with a pattern matching both paths
\* returns Q's node before P's.
C19_QueryOrderIsAttachOrder ==
    scen.phase = "bothLoaded" =>
        /\ Attached(scen.first)
        /\ Attached(scen.load)
        /\ \A pattern \in Patterns :
              {recs[loadRec[scen.first]].prefabPath, scen.path} \subseteq pattern =>
                  Before(find(LayerState, pattern), scen.load, scen.first)

C19_Witness ==
    /\ scen.phase = "bothLoaded"
    /\ scen.first < scen.load
    /\ find(LayerState, Paths) = <<scen.load, scen.first>>

====
